---- MODULE Spec2Model ----
(***************************************************************************)
(* Model of src/app.py: the Streamlit page "10D Stores - AI Database       *)
(* Action Analyzer".  One script run per user interaction; the run calls   *)
(* analyze_action_with_ai (credential check, payload, HTTP POST, envelope  *)
(* extraction, json.loads) and renders the returned value.                 *)
(*                                                                         *)
(* Python strings are modelled as sequences of lexical tokens, so that     *)
(* json.loads / response.json() are real parsers over the text and the     *)
(* upstream encoding is a real serialiser.                                 *)
(***************************************************************************)
EXTENDS Integers, Sequences, FiniteSets, TLC

\* ------------------------------------------------------------------------
\* Bounds
\* ------------------------------------------------------------------------
MaxRuns == 2
MaxImpact == 2

\* ------------------------------------------------------------------------
\* Text: a sequence of tokens [k, w, c]
\*   k : token kind ("{", "}", "[", "]", ":", ",", "ws", "str", "num",
\*       "null", "true", "false", "word")
\*   w : the word / literal of a "word" or "num" token
\*   c : the content (again a text) of a "str" token
\* ------------------------------------------------------------------------
Tok(k) == [k |-> k, w |-> "", c |-> <<>>]
W(w) == [k |-> "word", w |-> w, c |-> <<>>]
TNum(w) == [k |-> "num", w |-> w, c |-> <<>>]
TStr(c) == [k |-> "str", w |-> "", c |-> c]
WS == Tok("ws")
Txt(w) == <<W(w)>>

\* ------------------------------------------------------------------------
\* Python values: [t, w, c, items, keys]
\*   t = "none" | "bool" | "int" | "str" | "list" | "dict"
\* ------------------------------------------------------------------------
PyVal(t, w, c, items, keys) == [t |-> t, w |-> w, c |-> c, items |-> items, keys |-> keys]
JNone == PyVal("none", "", <<>>, <<>>, <<>>)
JBool(w) == PyVal("bool", w, <<>>, <<>>, <<>>)
JInt(w) == PyVal("int", w, <<>>, <<>>, <<>>)
JStr(c) == PyVal("str", "", c, <<>>, <<>>)
JList(items) == PyVal("list", "", <<>>, items, <<>>)
JDict(keys, items) == PyVal("dict", "", <<>>, items, keys)
S(w) == JStr(Txt(w))
EmptyStr == JStr(<<>>)
EmptyDict == JDict(<<>>, <<>>)
EmptyList == JList(<<>>)

\* ------------------------------------------------------------------------
\* Exceptions and results of Python expressions
\* ------------------------------------------------------------------------
Exc(type, status) == [type |-> type, status |-> status]
NoExc == Exc("none", 0)
Ret(v) == [ok |-> TRUE, v |-> v, e |-> NoExc]
Raise(type) == [ok |-> FALSE, v |-> JNone, e |-> Exc(type, 0)]

\* name = value : the value is computed once and named in F
Bind(value, F(_)) == CHOOSE x \in {F(y) : y \in {value}} : TRUE

\* index of key in a dict's key sequence, 0 when absent
RECURSIVE KeyIndex(_, _, _)
KeyIndex(keys, key, i) ==
  IF i > Len(keys) THEN 0
  ELSE IF keys[i] = key THEN i
  ELSE KeyIndex(keys, key, i + 1)

DictHas(d, key) == KeyIndex(d.keys, key, 1) # 0

\* d[key] = v : a repeated key keeps its position and takes the later value
DictSet(d, key, v) ==
  LET i == KeyIndex(d.keys, key, 1) IN
  IF i = 0 THEN JDict(Append(d.keys, key), Append(d.items, v))
  ELSE JDict(d.keys, [d.items EXCEPT ![i] = v])

\* bool(v)
PyTruthy(v) ==
  CASE v.t = "none" -> FALSE
    [] v.t = "bool" -> v.w = "true"
    [] v.t = "int" -> v.w # "0"
    [] v.t = "str" -> Len(v.c) > 0
    [] v.t = "list" -> Len(v.items) > 0
    [] v.t = "dict" -> Len(v.keys) > 0

\* v.get(key, default) : only dict has .get
PyGet(v, key, default) ==
  IF v.t # "dict" THEN Raise("AttributeError")
  ELSE LET i == KeyIndex(v.keys, key, 1) IN
       IF i = 0 THEN Ret(default) ELSE Ret(v.items[i])

\* v[0]
PyIndex0(v) ==
  CASE v.t = "list" -> IF Len(v.items) > 0 THEN Ret(v.items[1]) ELSE Raise("IndexError")
    [] v.t = "str" -> IF Len(v.c) > 0 THEN Ret(JStr(<<v.c[1]>>)) ELSE Raise("IndexError")
    [] v.t = "dict" -> Raise("KeyError")
    [] OTHER -> Raise("TypeError")

\* iter(v) as the sequence of yielded values
PyIter(v) ==
  CASE v.t = "list" -> Ret(v.items)
    [] v.t = "str" -> Ret([i \in 1..Len(v.c) |-> JStr(<<v.c[i]>>)])
    [] v.t = "dict" -> Ret([i \in 1..Len(v.keys) |-> JStr(v.keys[i])])
    [] OTHER -> Raise("TypeError")

\* chained calls: the first exception wins
Get(r, key, default) == IF r.ok THEN PyGet(r.v, key, default) ELSE r
Index0(r) == IF r.ok THEN PyIndex0(r.v) ELSE r

\* ------------------------------------------------------------------------
\* JSON decoding (json.loads / response.json()) over a text
\* ------------------------------------------------------------------------
RECURSIVE SkipWs(_, _)
SkipWs(ts, i) ==
  IF i <= Len(ts) /\ ts[i].k = "ws" THEN SkipWs(ts, i + 1) ELSE i

PFail == [ok |-> FALSE, v |-> JNone, i |-> 0]
POk(v, i) == [ok |-> TRUE, v |-> v, i |-> i]

RECURSIVE ParseValue(_, _)
RECURSIVE ParseItems(_, _, _)
RECURSIVE ParseMembers(_, _, _)
ParseValue(ts, i0) ==
  LET i == SkipWs(ts, i0) IN
  IF i > Len(ts) THEN PFail
  ELSE LET tk == ts[i]
           j == SkipWs(ts, i + 1)
       IN CASE tk.k = "str" -> POk(JStr(tk.c), i + 1)
            [] tk.k = "num" -> POk(JInt(tk.w), i + 1)
            [] tk.k = "null" -> POk(JNone, i + 1)
            [] tk.k \in {"true", "false"} -> POk(JBool(tk.k), i + 1)
            [] tk.k = "[" ->
                 IF j <= Len(ts) /\ ts[j].k = "]" THEN POk(EmptyList, j + 1)
                 ELSE ParseItems(ts, i + 1, <<>>)
            [] tk.k = "{" ->
                 IF j <= Len(ts) /\ ts[j].k = "}" THEN POk(EmptyDict, j + 1)
                 ELSE ParseMembers(ts, i + 1, EmptyDict)
            [] OTHER -> PFail

ParseItems(ts, i, acc) ==
  Bind(ParseValue(ts, i), LAMBDA r :
    IF ~r.ok THEN PFail
    ELSE LET j == SkipWs(ts, r.i) IN
         IF j > Len(ts) THEN PFail
         ELSE IF ts[j].k = "," THEN ParseItems(ts, j + 1, Append(acc, r.v))
         ELSE IF ts[j].k = "]" THEN POk(JList(Append(acc, r.v)), j + 1)
         ELSE PFail)

ParseMembers(ts, i0, d) ==
  LET i == SkipWs(ts, i0) IN
  IF i > Len(ts) \/ ts[i].k # "str" THEN PFail
  ELSE LET c == SkipWs(ts, i + 1) IN
       IF c > Len(ts) \/ ts[c].k # ":" THEN PFail
       ELSE Bind(ParseValue(ts, c + 1), LAMBDA r :
              IF ~r.ok THEN PFail
              ELSE Bind(DictSet(d, ts[i].c, r.v), LAMBDA d2 :
                     LET j == SkipWs(ts, r.i) IN
                     IF j > Len(ts) THEN PFail
                     ELSE IF ts[j].k = "," THEN ParseMembers(ts, j + 1, d2)
                     ELSE IF ts[j].k = "}" THEN POk(d2, j + 1)
                     ELSE PFail))

\* the whole text must be one JSON value (trailing whitespace allowed)
Decode(ts) ==
  Bind(ParseValue(ts, 1), LAMBDA r :
    IF r.ok /\ SkipWs(ts, r.i) = Len(ts) + 1 THEN Ret(r.v)
    ELSE Raise("JSONDecodeError"))

\* json.loads(s)
json_loads(s) == IF s.t # "str" THEN Raise("TypeError") ELSE Decode(s.c)

\* ------------------------------------------------------------------------
\* JSON encoding as the upstream service writes it (", " and ": " separators)
\* ------------------------------------------------------------------------
RECURSIVE Dumps(_)
RECURSIVE DumpItems(_, _)
RECURSIVE DumpMembers(_, _)
Dumps(v) ==
  CASE v.t = "none" -> <<Tok("null")>>
    [] v.t = "bool" -> <<Tok(v.w)>>
    [] v.t = "int" -> <<TNum(v.w)>>
    [] v.t = "str" -> <<TStr(v.c)>>
    [] v.t = "list" -> <<Tok("[")>> \o DumpItems(v.items, 1) \o <<Tok("]")>>
    [] v.t = "dict" -> <<Tok("{")>> \o DumpMembers(v, 1) \o <<Tok("}")>>

DumpItems(items, i) ==
  IF i > Len(items) THEN <<>>
  ELSE Dumps(items[i])
       \o (IF i < Len(items) THEN <<Tok(","), WS>> ELSE <<>>)
       \o DumpItems(items, i + 1)

DumpMembers(d, i) ==
  IF i > Len(d.keys) THEN <<>>
  ELSE <<TStr(d.keys[i]), Tok(":"), WS>> \o Dumps(d.items[i])
       \o (IF i < Len(d.keys) THEN <<Tok(","), WS>> ELSE <<>>)
       \o DumpMembers(d, i + 1)


\* ------------------------------------------------------------------------
\* Page elements (calls of st.*) : [el, msg, arg, badge, e]
\* ------------------------------------------------------------------------
NoBadge == [op |-> <<>>, bg |-> "", fg |-> ""]
Elem(el, msg, arg, badge, e) == [el |-> el, msg |-> msg, arg |-> arg, badge |-> badge, e |-> e]
StError(msg, e) == Elem("error", msg, JNone, NoBadge, e)
StJson(v) == Elem("json", "", v, NoBadge, NoExc)
StInfo(msg) == Elem("info", msg, JNone, NoBadge, NoExc)
StMarkdown(v) == Elem("markdown", "", v, NoBadge, NoExc)

ConfigErrorMsg == "GEMINI_API_KEY is not set in Streamlit secrets."
NetworkErrorMsg == "Network error calling the API"
ParsingErrorMsg == "Error parsing the API response"
UnexpectedErrorMsg == "An unexpected error occurred"
NoImpactMsg == "The AI determined this action has no direct impact on the database."
EnterActionMsg == "Enter an action above and click 'Analyze' to see the results."

\* ------------------------------------------------------------------------
\* analyze_action_with_ai
\* ------------------------------------------------------------------------
SecretName == Txt("GEMINI_API_KEY")

\* faulty variant: a placeholder default instead of ""
api_key_of_placeholder(secrets) == PyGet(secrets, SecretName, S("YOUR_API_KEY")).v

\* st.secrets.get("GEMINI_API_KEY", "")
api_key_of(secrets) == PyGet(secrets, SecretName, EmptyStr).v

api_url(api_key) ==
  <<W("https://generativelanguage.googleapis.com/v1beta/models/gemini-2.5-flash-preview-05-20:generateContent?key=")>>
  \o api_key.c

db_schema == Txt("10D Stores Firestore Database Schema")

system_prompt ==
  <<W("expert Firestore database analyst"),
    W("10D Stores app is a discount/offer platform"),
    W("respond with ONLY a valid JSON object")>>

payload(user_query) ==
  JDict(<<Txt("contents"), Txt("systemInstruction"), Txt("generationConfig")>>,
        <<JList(<<JDict(<<Txt("parts")>>,
                        <<JList(<<JDict(<<Txt("text")>>, <<JStr(user_query)>>)>>)>>)>>),
          JDict(<<Txt("parts")>>,
                <<JList(<<JDict(<<Txt("text")>>, <<JStr(system_prompt)>>)>>)>>),
          JDict(<<Txt("responseMimeType")>>, <<S("application/json")>>)>>)

\* faulty variant: only server errors raise
raise_for_status_5xx(status) == 500 <= status /\ status < 600

\* response.raise_for_status(): "Raises an HTTPError for bad responses (4XX or 5XX)"
raise_for_status(status) == 400 <= status /\ status < 600

\* response.json(): a body that is not JSON raises the installed requests
\* version's error (json_error)
response_json(body, json_error) ==
  Bind(Decode(body), LAMBDA r : IF r.ok THEN r ELSE Raise(json_error))

\* result.get("candidates", [{}])[0].get("content", {}).get("parts", [{}])[0].get("text", "")
extract_text(result) ==
  Get(Index0(Get(Get(Index0(Get(Ret(result), Txt("candidates"), JList(<<EmptyDict>>))),
                     Txt("content"), EmptyDict),
                 Txt("parts"), JList(<<EmptyDict>>))),
      Txt("text"), EmptyStr)

\* the try block, lines 100-109
try_request(resp, json_error) ==
  IF resp.transport # "ok" THEN Raise(resp.transport)
  ELSE IF raise_for_status(resp.status)
       THEN [ok |-> FALSE, v |-> JNone, e |-> Exc("HTTPError", resp.status)]
  ELSE Bind(response_json(resp.body, json_error), LAMBDA result :
         IF ~result.ok THEN result
         ELSE Bind(extract_text(result.v), LAMBDA json_text :
                IF ~json_text.ok THEN json_text
                ELSE IF ~PyTruthy(json_text.v) THEN Raise("ValueError")
                ELSE json_loads(json_text.v)))

\* except requests.exceptions.RequestException
IsRequestException(e) ==
  e.type \in {"ConnectionError", "HTTPError", "requests.JSONDecodeError"}

\* faulty variant: except (ValueError, KeyError)
IsParsingError_noIndexError(e) ==
  e.type \in {"ValueError", "JSONDecodeError", "KeyError"}

\* except (ValueError, KeyError, IndexError)
IsParsingError(e) ==
  e.type \in {"ValueError", "JSONDecodeError", "KeyError", "IndexError"}

\* result if 'result' in locals() else "No response object available."
result_or_note(resp, json_error) ==
  IF resp.transport = "ok" /\ ~raise_for_status(resp.status)
  THEN Bind(response_json(resp.body, json_error), LAMBDA result :
         IF result.ok THEN result.v ELSE S("No response object available."))
  ELSE S("No response object available.")

\* requests.post(api_url, json=payload, ...)
Request(api_key, user_query) == [url |-> api_url(api_key), json |-> payload(user_query)]
NoRequest == [url |-> <<>>, json |-> JNone]

Outcome(ret, shown, posted, parsed, sent) ==
  [ret |-> ret, shown |-> shown, posted |-> posted, parsed |-> parsed, sent |-> sent]

analyze_action_with_ai(user_query, secrets, resp, json_error) ==
  LET api_key == api_key_of(secrets) IN
  IF ~PyTruthy(api_key)
  THEN Outcome(JNone, <<StError(ConfigErrorMsg, NoExc)>>, FALSE, FALSE, NoRequest)
  ELSE LET parsed == resp.transport = "ok" /\ ~raise_for_status(resp.status)
           sent == Request(api_key, user_query)
       IN Bind(try_request(resp, json_error), LAMBDA r :
            IF r.ok THEN Outcome(r.v, <<>>, TRUE, parsed, sent)
            ELSE IF IsRequestException(r.e)
                 THEN Outcome(JNone, <<StError(NetworkErrorMsg, r.e)>>, TRUE, parsed, sent)
            ELSE IF IsParsingError(r.e)
                 THEN Outcome(JNone, <<StError(ParsingErrorMsg, r.e),
                                       StJson(result_or_note(resp, json_error))>>,
                              TRUE, parsed, sent)
            ELSE Outcome(JNone, <<StError(UnexpectedErrorMsg, r.e)>>, TRUE, parsed, sent))

\* ------------------------------------------------------------------------
\* get_operation_badge
\* ------------------------------------------------------------------------
UpperWord(w) ==
  CASE w \in {"read", "Read"} -> "READ"
    [] w \in {"write", "Write"} -> "WRITE"
    [] w \in {"delete", "Delete"} -> "DELETE"
    [] w = "upsert" -> "UPSERT"
    [] w = "x" -> "X"
    [] OTHER -> w

\* operation.upper() : only str has .upper
PyUpper(v) ==
  IF v.t # "str" THEN Raise("AttributeError")
  ELSE Ret(JStr([i \in 1..Len(v.c) |-> [v.c[i] EXCEPT !.w = UpperWord(@)]]))

\* colors.get(op, ("#e5e7eb", "#4b5563"))
colors(op) ==
  CASE op = Txt("READ") -> <<"#e0f2fe", "#0284c7">>
    [] op = Txt("WRITE") -> <<"#d1fae5", "#059669">>
    [] op = Txt("DELETE") -> <<"#fee2e2", "#dc2626">>
    [] OTHER -> <<"#e5e7eb", "#4b5563">>

get_operation_badge(operation) ==
  LET op == PyUpper(operation) IN
  IF ~op.ok THEN [ok |-> FALSE, badge |-> NoBadge, e |-> op.e]
  ELSE [ok |-> TRUE,
        badge |-> [op |-> op.v.c, bg |-> colors(op.v.c)[1], fg |-> colors(op.v.c)[2]],
        e |-> NoExc]

\* ------------------------------------------------------------------------
\* Results section, lines 154-177
\* ------------------------------------------------------------------------
Drawn(els, e) == [els |-> els, e |-> e]

\* body of "for item in impacts", lines 169-177
RenderItem(item) ==
  LET box == <<Elem("container", "", JNone, NoBadge, NoExc)>>
      table == PyGet(item, Txt("table"), S("N/A"))
  IN IF ~table.ok THEN Drawn(box, table.e)
     ELSE Bind(get_operation_badge(PyGet(item, Txt("operation"), S("N/A")).v), LAMBDA badge :
            IF ~badge.ok THEN Drawn(box, badge.e)
            ELSE Bind(box \o
                      <<Elem("h4", "", table.v, badge.badge, NoExc),
                        Elem("caption", "",
                             PyGet(item, Txt("reason"), S("No reason provided.")).v,
                             NoBadge, NoExc)>>, LAMBDA head :
                   LET fields == PyGet(item, Txt("fields"), EmptyList).v
                       tags == PyIter(fields)
                   IN IF ~PyTruthy(fields) THEN Drawn(head, NoExc)
                      ELSE IF ~tags.ok THEN Drawn(head, tags.e)
                      ELSE Drawn(Append(head, Elem("tags", "", JList(tags.v), NoBadge, NoExc)),
                                 NoExc)))

\* faulty variant: the loop stops after its first item
RenderItems_firstOnly(items, i, acc) ==
  IF i > Len(items) THEN Drawn(acc, NoExc)
  ELSE Bind(RenderItem(items[i]), LAMBDA r : Drawn(acc \o r.els, r.e))

RECURSIVE RenderItems(_, _, _)
RenderItems(items, i, acc) ==
  IF i > Len(items) THEN Drawn(acc, NoExc)
  ELSE Bind(RenderItem(items[i]), LAMBDA r :
         IF r.e # NoExc THEN Drawn(acc \o r.els, r.e)
         ELSE RenderItems(items, i + 1, acc \o r.els))

\* "if analysis_result:", lines 154-177
Render(analysis_result, action) ==
  IF ~PyTruthy(analysis_result) THEN Drawn(<<>>, NoExc)
  ELSE LET top == <<StMarkdown(S("---")),
                    Elem("header", "Analysis for", JStr(action), NoBadge, NoExc)>>
           description == PyGet(analysis_result, Txt("description"),
                                S("No description provided."))
       IN IF ~description.ok THEN Drawn(top, description.e)
          ELSE LET mid == top \o
                     <<StMarkdown(description.v),
                       Elem("subheader", "Affected Collections & Fields", JNone, NoBadge, NoExc)>>
                   impacts == PyGet(analysis_result, Txt("impact"), EmptyList).v
               IN IF ~PyTruthy(impacts) THEN Drawn(Append(mid, StInfo(NoImpactMsg)), NoExc)
                  ELSE LET it == PyIter(impacts) IN
                       IF ~it.ok THEN Drawn(mid, it.e)
                       ELSE RenderItems(it.v, 1, mid)

\* lines 134-147: title, introduction, rule, text area, button
Header(action) ==
  <<Elem("title", "10D Stores - AI Database Action Analyzer", JNone, NoBadge, NoExc),
    StMarkdown(S("Describe any user action")),
    StMarkdown(S("---")),
    Elem("text_area", "Describe the User Action", JStr(action), NoBadge, NoExc),
    Elem("button", "Analyze Action", JNone, NoBadge, NoExc)>>

NoResponse == [transport |-> "none", status |-> 0, body |-> <<>>]

Run(kind, action, called, a, resp, drawn) ==
  [kind |-> kind, action |-> action, called |-> called, posted |-> a.posted,
   parsed |-> a.parsed, sent |-> a.sent,
   resp |-> IF a.posted THEN resp ELSE NoResponse, ret |-> a.ret,
   page |-> Header(action) \o a.shown \o drawn.els, exc |-> drawn.e]

NotCalled == Outcome(JNone, <<>>, FALSE, FALSE, NoRequest)

\* one run of the script, lines 134-180; the text area's value and
\* st.session_state["action_input"] are the same string (key="action_input"),
\* the spinner is gone when the run ends
Script(kind, analyze_button, action, secrets, resp, json_error) ==
  IF analyze_button /\ PyTruthy(JStr(action))
  THEN Bind(analyze_action_with_ai(action, secrets, resp, json_error), LAMBDA a :
         Run(kind, action, TRUE, a, resp, Render(a.ret, action)))
  ELSE IF ~PyTruthy(JStr(action))
       THEN Run(kind, action, FALSE, NotCalled, NoResponse,
                Drawn(<<StInfo(EnterActionMsg)>>, NoExc))
  ELSE Run(kind, action, FALSE, NotCalled, NoResponse, Drawn(<<>>, NoExc))


\* ------------------------------------------------------------------------
\* Inputs: what the user types, what the deployment configures, what the
\* upstream service answers
\* ------------------------------------------------------------------------
Actions == {<<>>, <<WS>>, Txt("A customer redeems an offer")}

SecretStores ==
  {EmptyDict, JDict(<<SecretName>>, <<EmptyStr>>), JDict(<<SecretName>>, <<S("key")>>)}

\* requests >= 2.27 raises requests.exceptions.JSONDecodeError (a
\* RequestException), older versions the json module's error (a ValueError)
JsonErrors == {"requests.JSONDecodeError", "JSONDecodeError"}

Entry(table, operation, fields, reason) ==
  JDict(<<Txt("table"), Txt("operation"), Txt("fields"), Txt("reason")>>,
        <<table, operation, fields, reason>>)

Entries ==
  {Entry(S("offers"), S("READ"), JList(<<S("status"), S("title")>>), S("validate the offer")),
   Entry(S("redemptions"), S("write"), JList(<<S("offerId"), S("offerId")>>), S("record it")),
   Entry(S("reviews"), S("upsert"), EmptyList, S("unknown operation"))}

ImpactLists == UNION {[1..n -> Entries] : n \in 0..MaxImpact}

Analysis(description, impact) ==
  JDict(<<Txt("description"), Txt("impact")>>, <<description, impact>>)

Documented == {Analysis(S("reads **status**"), JList(l)) : l \in ImpactLists}

OneEntry == CHOOSE e \in Entries : e.items[1] = S("offers")

Undocumented ==
  {EmptyDict, EmptyList, JList(<<JInt("1")>>), JInt("0"), JInt("5"), JNone,
   JBool("false"), JBool("true"), EmptyStr, S("ok"),
   JDict(<<Txt("description")>>, <<S("d")>>),
   JDict(<<Txt("impact")>>, <<JList(<<OneEntry>>)>>),
   Analysis(JInt("5"), JList(<<OneEntry>>)),
   Analysis(S("d"), JInt("5")),
   Analysis(S("d"), S("x")),
   Analysis(S("d"), JDict(<<Txt("offers")>>, <<S("READ")>>)),
   Analysis(S("d"), JList(<<S("x")>>)),
   Analysis(S("d"), JList(<<OneEntry, JInt("1")>>)),
   Analysis(S("d"), JList(<<EmptyDict>>)),
   Analysis(S("d"), JList(<<Entry(S("offers"), JInt("5"), EmptyList, S("r"))>>)),
   Analysis(S("d"), JList(<<Entry(S("offers"), JNone, EmptyList, S("r"))>>)),
   Analysis(S("d"), JList(<<Entry(S("offers"), S("READ"), JInt("5"), S("r"))>>)),
   Analysis(S("d"), JList(<<Entry(S("offers"), S("READ"), S("x"), S("r"))>>))}

EmbeddedTexts ==
  {Dumps(v) : v \in Documented \cup Undocumented}
  \cup {Txt("not-json"), <<WS>>, <<Tok("{")>>,
        <<W("(markdown fence)")>> \o Dumps(Analysis(S("d"), EmptyList)) \o <<W("(markdown fence)")>>}

Part(text) == JDict(<<Txt("text")>>, <<text>>)
Content(parts) == JDict(<<Txt("parts"), Txt("role")>>, <<parts, S("model")>>)
Candidate(content) == JDict(<<Txt("content"), Txt("finishReason")>>, <<content, S("STOP")>>)
Envelope(candidates) == JDict(<<Txt("candidates"), Txt("modelVersion")>>, <<candidates, S("m")>>)
EnvelopeOf(text) == Envelope(JList(<<Candidate(Content(JList(<<Part(text)>>)))>>))

Envelopes ==
  {EnvelopeOf(JStr(t)) : t \in EmbeddedTexts}
  \cup {EnvelopeOf(EmptyStr), EnvelopeOf(JInt("5")), EnvelopeOf(JNone),
        JDict(<<Txt("modelVersion")>>, <<S("m")>>),
        Envelope(EmptyList),
        Envelope(JList(<<JDict(<<Txt("finishReason")>>, <<S("SAFETY")>>)>>)),
        Envelope(JList(<<Candidate(JDict(<<Txt("role")>>, <<S("model")>>))>>)),
        Envelope(JList(<<Candidate(Content(EmptyList))>>)),
        Envelope(JList(<<Candidate(Content(JList(<<EmptyDict>>)))>>)),
        EmptyDict, EmptyList, JNone,
        Envelope(JNone), Envelope(EmptyDict), Envelope(S("x")),
        Envelope(JList(<<Candidate(JNone)>>)),
        Envelope(JList(<<Candidate(Content(JNone))>>))}

Bodies == {Dumps(e) : e \in Envelopes} \cup {Txt("<html>"), <<>>}

ErrorBodies ==
  {Dumps(JDict(<<Txt("error")>>, <<S("status")>>)), Txt("<html>"), <<>>,
   Dumps(EnvelopeOf(JStr(Dumps(Analysis(S("d"), JList(<<OneEntry>>))))))}

Response(transport, status, body) == [transport |-> transport, status |-> status, body |-> body]

Responses ==
  {Response("ok", 200, b) : b \in Bodies}
  \cup {Response("ok", st, b) : st \in {204, 304, 404, 500}, b \in ErrorBodies}
  \cup {Response("ConnectionError", 0, <<>>)}

\* ------------------------------------------------------------------------
\* State
\* ------------------------------------------------------------------------
VARIABLES
  secrets,       \* st.secrets of the deployment
  json_error,    \* the error response.json() raises in the installed requests
  action_input,  \* st.session_state["action_input"]
  page,          \* the elements the last script run drew
  exc,           \* the exception that ended the last script run, if any
  last,          \* the last script run: trigger, input, request, response, return value
  posts,         \* HTTP POSTs issued in the session
  submitted,     \* an analysis was requested in the session
  runs           \* user interactions so far

vars == <<secrets, json_error, action_input, page, exc, last, posts, submitted, runs>>

Log(r) == [f \in DOMAIN r \ {"page", "exc"} |-> r[f]]

Init ==
  /\ secrets \in SecretStores
  /\ json_error \in JsonErrors
  /\ action_input = <<>>
  /\ \E r \in {Script("load", FALSE, <<>>, secrets, NoResponse, json_error)} :
       /\ page = r.page
       /\ exc = r.exc
       /\ last = Log(r)
  /\ posts = 0
  /\ submitted = FALSE
  /\ runs = 0

\* the user changes the text area and leaves it: a rerun with the button unset
EditInput(text) ==
  /\ runs < MaxRuns
  /\ text # action_input
  /\ action_input' = text
  /\ \E r \in {Script("edit", FALSE, text, secrets, NoResponse, json_error)} :
       /\ page' = r.page
       /\ exc' = r.exc
       /\ last' = Log(r)
  /\ runs' = runs + 1
  /\ UNCHANGED <<secrets, json_error, posts, submitted>>

\* the user presses "Analyze Action" (with the text area holding text): a
\* rerun with the button set; resp is what the upstream service answers if asked
ClickAnalyze(text, resp) ==
  /\ runs < MaxRuns
  /\ action_input' = text
  /\ \E r \in {Script("click", TRUE, text, secrets, resp, json_error)} :
       /\ page' = r.page
       /\ exc' = r.exc
       /\ last' = Log(r)
       /\ posts' = posts + (IF r.posted THEN 1 ELSE 0)
       /\ submitted' = (submitted \/ r.called)
  /\ runs' = runs + 1
  /\ UNCHANGED <<secrets, json_error>>

Next ==
  \/ \E text \in Actions : EditInput(text)
  \/ \E text \in Actions, resp \in Responses : ClickAnalyze(text, resp)

Spec == Init /\ [][Next]_vars

\* ------------------------------------------------------------------------
\* Observations used by the properties
\* ------------------------------------------------------------------------
IsBlank(text) == \A i \in 1..Len(text) : text[i].k = "ws"

Shows(p, el, msg) == \E i \in 1..Len(p) : p[i].el = el /\ p[i].msg = msg

ResultsArea(p) == SubSeq(p, Len(Header(<<>>)) + 1, Len(p))

Contains(text, part) ==
  \E i \in 1..(Len(text) - Len(part) + 1) : SubSeq(text, i, i + Len(part) - 1) = part

Field(d, name) == d.items[KeyIndex(d.keys, Txt(name), 1)]
HasField(d, name, t) == d.t = "dict" /\ DictHas(d, Txt(name)) /\ Field(d, name).t = t

IsStrList(v) == v.t = "list" /\ \A i \in 1..Len(v.items) : v.items[i].t = "str"

IsImpactEntry(v) ==
  /\ HasField(v, "table", "str")
  /\ HasField(v, "operation", "str")
  /\ HasField(v, "fields", "list") /\ IsStrList(Field(v, "fields"))
  /\ HasField(v, "reason", "str")

IsAnalysisResult(v) ==
  /\ HasField(v, "description", "str")
  /\ HasField(v, "impact", "list")
  /\ \A i \in 1..Len(Field(v, "impact").items) : IsImpactEntry(Field(v, "impact").items[i])

CredentialAbsent ==
  \/ ~DictHas(secrets, SecretName)
  \/ Field(secrets, "GEMINI_API_KEY") = EmptyStr

\* the response of the last run was received with a 2xx status and a JSON body
Answered == last.posted /\ last.resp.transport = "ok" /\ last.resp.status \in 200..299
EnvelopeReceived == Answered /\ Decode(last.resp.body).ok /\ Decode(last.resp.body).v.t = "dict"
TheEnvelope == Decode(last.resp.body).v

FirstOf(d, name) == Field(d, name).items[1]
HasFirst(d, name) ==
  HasField(d, name, "list") /\ Len(Field(d, name).items) > 0 /\ FirstOf(d, name).t = "dict"
Lacks(d, name) == ~DictHas(d, Txt(name)) \/ Field(d, name) = EmptyList

MissingCandidate == EnvelopeReceived /\ Lacks(TheEnvelope, "candidates")
HasCandidate == EnvelopeReceived /\ HasFirst(TheEnvelope, "candidates")
TheCandidate == FirstOf(TheEnvelope, "candidates")
MissingContent == HasCandidate /\ ~DictHas(TheCandidate, Txt("content"))
HasContent == HasCandidate /\ HasField(TheCandidate, "content", "dict")
TheContent == Field(TheCandidate, "content")
MissingPart == HasContent /\ Lacks(TheContent, "parts")
HasPart == HasContent /\ HasFirst(TheContent, "parts")
ThePart == FirstOf(TheContent, "parts")
EmptyText == HasPart /\ HasField(ThePart, "text", "str") /\ Field(ThePart, "text") = EmptyStr
HasText == HasPart /\ HasField(ThePart, "text", "str") /\ Field(ThePart, "text") # EmptyStr
TheText == Field(ThePart, "text").c
InvalidJsonText == HasText /\ ~Decode(TheText).ok
TheJson == Decode(TheText).v

Headings(p) ==
  LET h == SelectSeq(p, LAMBDA e : e.el = "h4") IN [i \in 1..Len(h) |-> h[i].arg]
Tables(v) ==
  [i \in 1..Len(Field(v, "impact").items) |-> Field(Field(v, "impact").items[i], "table")]

\* ------------------------------------------------------------------------
\* Properties
\* ------------------------------------------------------------------------

\* C1: pressing the button while the input is empty or only whitespace never
\* calls analyze_action_with_ai and issues no HTTP POST.
C1_BlankInputNeverCalls ==
  (last.kind = "click" /\ IsBlank(last.action)) => (~last.called /\ ~last.posted)

\* C2: with the credential unset or empty, analyze_action_with_ai shows the
\* configuration error, returns None, and no HTTP POST is ever issued.
C2_NoCredentialNoCall ==
  CredentialAbsent =>
    /\ posts = 0
    /\ last.called =>
         /\ Shows(page, "error", ConfigErrorMsg)
         /\ last.ret = JNone
         /\ ~last.posted
         /\ last.sent = NoRequest
         /\ ~Shows(page, "header", "Analysis for")

C2_Witness ==
  /\ ~DictHas(secrets, SecretName)
  /\ last.kind = "click" /\ last.called
  /\ ~IsBlank(last.action)

\* C3: analyze_action_with_ai returns either a fully-formed AnalysisResult
\* (description and impact of the documented shape) or a failure (None).
C3_FullyFormedOrFailure ==
  last.called => (last.ret = JNone \/ IsAnalysisResult(last.ret))

\* C4: the system instruction of the request carries the schema catalog, the
\* domain framing and the output contract; the user turn is the raw action.
C4_PromptCarriesSchema ==
  last.posted =>
    LET system == Field(FirstOf(Field(last.sent.json, "systemInstruction"), "parts"), "text").c
        user == Field(FirstOf(FirstOf(last.sent.json, "contents"), "parts"), "text").c
    IN /\ Contains(system, db_schema)
       /\ Contains(system, Txt("10D Stores app is a discount/offer platform"))
       /\ Contains(system, Txt("respond with ONLY a valid JSON object"))
       /\ user = last.action

\* C5 as stated: any non-2xx status gives the network error with the status,
\* the body is not parsed and nothing is returned.
C5_Non2xxIsNetworkError ==
  (last.posted /\ last.resp.transport = "ok" /\ last.resp.status \notin 200..299) =>
    /\ \E i \in 1..Len(page) :
         /\ page[i].el = "error" /\ page[i].msg = NetworkErrorMsg
         /\ page[i].e = Exc("HTTPError", last.resp.status)
    /\ ~last.parsed
    /\ last.ret = JNone

\* C5 amended: any 4xx or 5xx status gives the network error with the status,
\* the body is not parsed and nothing is returned.
C5_ErrorStatusIsNetworkError ==
  (last.posted /\ last.resp.transport = "ok" /\ last.resp.status \in 400..599) =>
    /\ \E i \in 1..Len(page) :
         /\ page[i].el = "error" /\ page[i].msg = NetworkErrorMsg
         /\ page[i].e = Exc("HTTPError", last.resp.status)
    /\ ~last.parsed
    /\ last.ret = JNone
    /\ ~Shows(page, "header", "Analysis for")

C5_Witness ==
  /\ last.posted /\ last.resp.transport = "ok" /\ last.resp.status = 404
  /\ Decode(last.resp.body).ok
  /\ HasFirst(Decode(last.resp.body).v, "candidates")
  /\ Shows(page, "error", NetworkErrorMsg)

\* C6: a 2xx response whose envelope lacks the candidate, the content or the
\* part, or whose text is empty or not JSON, gives the parsing error (not the
\* network or the unexpected error) with the raw envelope, and returns None.
C6_MalformedEnvelope ==
  (MissingCandidate \/ MissingContent \/ MissingPart \/ EmptyText \/ InvalidJsonText) =>
    /\ Shows(page, "error", ParsingErrorMsg)
    /\ \E i \in 1..Len(page) : page[i] = StJson(TheEnvelope)
    /\ ~Shows(page, "error", NetworkErrorMsg)
    /\ ~Shows(page, "error", UnexpectedErrorMsg)
    /\ last.ret = JNone
    /\ exc = NoExc

C6_Witness ==
  /\ EnvelopeReceived
  /\ HasField(TheEnvelope, "candidates", "list")
  /\ Field(TheEnvelope, "candidates") = EmptyList
  /\ Shows(page, "error", ParsingErrorMsg)

\* C7: pressing the button with empty input leaves what was displayed as it
\* was, and the enter-input notice appears only if nothing was ever submitted.
C7_EmptyClickKeepsPage ==
  [][(last'.kind = "click" /\ last'.action = <<>>) =>
       /\ ResultsArea(page') = ResultsArea(page)
       /\ Shows(page', "info", EnterActionMsg) => ~submitted]_vars

\* C8: no exception escapes a script run, whatever the upstream response.
C8_NoUnhandledException == exc = NoExc

\* C9: for a 2xx response whose embedded JSON has the documented shape with a
\* non-empty impact, the page has one heading per impact entry, in the order
\* of the array, and no empty-impact notice.
C9_OneHeadingPerImpact ==
  (HasText /\ Decode(TheText).ok /\ IsAnalysisResult(TheJson)
     /\ Len(Field(TheJson, "impact").items) > 0) =>
    /\ Headings(page) = Tables(TheJson)
    /\ ~Shows(page, "info", NoImpactMsg)
    /\ exc = NoExc

C9_Witness ==
  /\ HasText /\ Decode(TheText).ok /\ IsAnalysisResult(TheJson)
  /\ Len(Field(TheJson, "impact").items) = 2
  /\ Tables(TheJson) = <<S("redemptions"), S("offers")>>
  /\ Headings(page) = <<S("redemptions"), S("offers")>>

\* C10: every request that was made ends either with the analysis rendered
\* or with a failure message, never with neither.
C10_DisplayingOrFailed ==
  last.called =>
    (Shows(page, "header", "Analysis for") /\ exc = NoExc) # (\E i \in 1..Len(page) : page[i].el = "error")

====
